---------------------------- MODULE Spec2Model ----------------------------
(***************************************************************************)
(* A model of the subtitle extraction / merge pipeline of                  *)
(* comfy-groq-tager: modules/smart_subtitle.py (merge_subtitles,           *)
(* process_smart_subtitle), modules/video_analysis.py (RateLimiter, the    *)
(* retrying extract_text_from_frame, process_video) and                    *)
(* modules/audio_analysis.py (extract_audio_from_video, transcribe_audio). *)
(*                                                                         *)
(* Texts are sequences of one-character strings.  "D" "Y" stand for the    *)
(* two characters of the watermark, " " for whitespace.  Timestamps are    *)
(* counted in ticks, TicksPerSec ticks to the second, so that fractional   *)
(* timestamps exist.                                                       *)
(***************************************************************************)
EXTENDS Integers, Sequences, FiniteSets, TLC

VARIABLES
    \* ---- merge_subtitles ----
    video_subs,      \* argument: list of [time, text]
    audio_subs,      \* argument: list of [time, text]
    merged1,         \* `merged` when the loop over video_subs has ended
    used_audio,      \* `used_audio` when the loop over video_subs has ended
    matches,         \* per video entry: the audio key / text it matched, if any
    leftovers,       \* per audio entry: whether the loop over audio_subs emitted it
    merged2,         \* `merged` when the loop over audio_subs has ended
    final_subs,      \* the returned list
    mpc,             \* "input" before the call, "done" after it
    \* ---- RateLimiter (the module-level rate_limiter) and the clock ----
    now,             \* time.time(), in seconds
    last_request_time,
    rpc,             \* per caller: where it is in wait_if_needed / its attempt
    current_time,    \* per caller: the local of wait_if_needed
    wake,            \* per caller: when its time.sleep() may return
    calls,           \* number of calls of wait_if_needed so far
    returns,         \* the returns of wait_if_needed so far, in order
    \* ---- the retrying extract_text_from_frame, called by p1 ----
    attempt,         \* tenacity's attempt_number
    trace,           \* what each attempt ended with
    outcome,         \* what the call gave its caller
    \* ---- process_smart_subtitle ("smart") and process_video ("video") ----
    video_file,      \* per invocation: whether a file was uploaded
    ppc,             \* per invocation: where it is
    files,           \* the temporary files that exist
    extracted,       \* per invocation: what extract_subtitles returned
    transcript,      \* what transcribe_audio returned to "smart"
    pending,         \* per invocation: the value of its return statement
    result,          \* per invocation: what the caller got
    \* ---- extract_subtitles: the frame loop ----
    opened,          \* cap.isOpened()
    fps,             \* int(cap.get(cv2.CAP_PROP_FPS))
    interval_seconds,\* argument, in tenths of a second
    nframes,         \* how many frames cap.read() yields before it fails
    interval,        \* the local `interval`
    frame_count,     \* the local `frame_count`
    decoded,         \* how many frames cap.read() has yielded so far
    subtitles,       \* the local `subtitles`
    submitted,       \* the calls of extract_text_from_frame so far, in order
    fpc,             \* where extract_subtitles is
    \* ---- text functions: the filter, the audio line parser ----
    message_content, \* the recognizer's message content
    once,            \* the filter's result for message_content
    twice,           \* the filter's result for once
    audio_content,   \* what transcribe_audio returned
    audio_subtitles, \* the local `audio_subtitles` after the parse loop
    parse_result,    \* how lines 122-135 ended for audio_content
    tpc              \* "input" before the functions are applied, "done" after

mergeVars == <<video_subs, audio_subs, merged1, used_audio, matches, leftovers,
               merged2, final_subs, mpc>>

rateVars == <<now, last_request_time, rpc, current_time, wake, calls, returns>>

retryVars == <<attempt, trace, outcome>>

pipeVars == <<video_file, ppc, files, extracted, transcript, pending, result>>

frameVars == <<opened, fps, interval_seconds, nframes, interval, frame_count,
               decoded, subtitles, submitted, fpc>>

textVars == <<message_content, once, twice, audio_content, audio_subtitles, parse_result, tpc>>

vars == <<mergeVars, rateVars, retryVars, pipeVars, frameVars, textVars>>

-----------------------------------------------------------------------------
(* Bounds of the model *)

TicksPerSec == 2
MaxSec == 3
MaxEntries == 3
MaxElapsed == 9           \* the clock runs for this many seconds
MaxCalls == 3             \* calls of wait_if_needed in the rate limiter runs
MaxFrames == 4            \* frames a video source yields
MaxFps == 2               \* frames per second a video source reports
MaxContentLen == 4        \* characters of a recognizer answer
MaxLines == 3             \* lines of an audio text

(* Program constants *)

WindowSec == 2            \* range(v - 2, v + 3) and abs(..) < 2
RPM_LIMIT == 15
MaxAttempts == 3          \* stop_after_attempt(3)
WaitMultiplier == 1       \* wait_exponential(multiplier=1, min=4, max=10)
WaitMin == 4
WaitMax == 10
MaxTextLen == 50          \* len(text) > 50
MinTextLen == 2           \* len(text) < 2

MatchThreshold == <<3, 10>>   \* score > 0.3
DedupThreshold == <<7, 10>>   \* similar(..) > 0.7
Watermark == <<"D", "Y">>     \* the literal removed by text.replace
NL == "\n"
Whitespace == {" ", NL}           \* what str.strip() removes

-----------------------------------------------------------------------------
(* Generic helpers *)

Max(a, b) == IF a >= b THEN a ELSE b
Min(a, b) == IF a <= b THEN a ELSE b
Abs(x) == IF x < 0 THEN -x ELSE x

\* p, q are fractions <<numerator, denominator>> with positive denominators
FracGt(p, q) == p[1] * q[2] > q[1] * p[2]

-----------------------------------------------------------------------------
(* difflib.SequenceMatcher(None, a, b).ratio(), as used by similar().      *)
(* No junk, and autojunk acts only on sequences of 200 elements or more.   *)

RECURSIVE RunLen(_, _, _, _, _, _)
\* length of the common run starting at a[i], b[j], inside a[..ahi], b[..bhi]
RunLen(a, b, i, j, ahi, bhi) ==
    IF i > ahi \/ j > bhi \/ a[i] # b[j] THEN 0
    ELSE 1 + RunLen(a, b, i + 1, j + 1, ahi, bhi)

\* every pair of start positions with the length of the block starting there
Blocks(a, b, alo, ahi, blo, bhi) ==
    {<<i, j, RunLen(a, b, i, j, ahi, bhi)>> : i \in alo .. ahi, j \in blo .. bhi}

\* the longest block; of those the one starting earliest in a; of those the
\* one starting earliest in b
PickBlock(cand) ==
    CHOOSE c \in cand :
        \A d \in cand :
            \/ c[3] > d[3]
            \/ c[3] = d[3] /\ c[1] < d[1]
            \/ c[3] = d[3] /\ c[1] = d[1] /\ c[2] <= d[2]

\* find_longest_match over the inclusive ranges alo..ahi and blo..bhi, both
\* non-empty: <<i, j, size>>, 1-based
FindLongestMatch(a, b, alo, ahi, blo, bhi) == PickBlock(Blocks(a, b, alo, ahi, blo, bhi))

RECURSIVE MatchCount(_, _, _, _, _, _)
RECURSIVE SplitAt(_, _, _, _, _, _, _)
\* get_matching_blocks: the sum of the sizes of the blocks found by taking
\* the longest match and recursing to its left and to its right
MatchCount(a, b, alo, ahi, blo, bhi) ==
    IF alo > ahi \/ blo > bhi THEN 0
    ELSE SplitAt(a, b, alo, ahi, blo, bhi, FindLongestMatch(a, b, alo, ahi, blo, bhi))

\* m is the longest match of the ranges
SplitAt(a, b, alo, ahi, blo, bhi, m) ==
    IF m[3] = 0 THEN 0
    ELSE m[3]
         + MatchCount(a, b, alo, m[1] - 1, blo, m[2] - 1)
         + MatchCount(a, b, m[1] + m[3], ahi, m[2] + m[3], bhi)

\* ratio() = 2.0 * matches / (len(a) + len(b)), and 1.0 when both are empty
similar(a, b) ==
    IF Len(a) + Len(b) = 0 THEN <<1, 1>>
    ELSE <<2 * MatchCount(a, b, 1, Len(a), 1, Len(b)), Len(a) + Len(b)>>

-----------------------------------------------------------------------------
(* str.strip() and str.replace(watermark, "") *)

RECURSIVE LStrip(_)
LStrip(s) == IF s # <<>> /\ Head(s) \in Whitespace THEN LStrip(Tail(s)) ELSE s

RECURSIVE RStrip(_)
RStrip(s) ==
    IF s # <<>> /\ s[Len(s)] \in Whitespace THEN RStrip(SubSeq(s, 1, Len(s) - 1)) ELSE s

Strip(s) == RStrip(LStrip(s))

RECURSIVE RemoveWatermark(_)
\* one left-to-right pass over non-overlapping occurrences
RemoveWatermark(s) ==
    IF Len(s) < Len(Watermark) THEN s
    ELSE IF SubSeq(s, 1, Len(Watermark)) = Watermark
         THEN RemoveWatermark(SubSeq(s, Len(Watermark) + 1, Len(s)))
         ELSE <<Head(s)>> \o RemoveWatermark(Tail(s))

\* text = text.strip(); text = text.replace("抖音", "").strip()
CleanText(s) == Strip(RemoveWatermark(Strip(s)))
-----------------------------------------------------------------------------
(* merge_subtitles *)

\* int(timestamp) of a non-negative timestamp given in ticks
IntSec(t) == t \div TicksPerSec

\* audio_dict = {int(timestamp): text for timestamp, text in audio_subs}:
\* a later entry with the same integer second overwrites an earlier one
AudioDict(audio) ==
    [k \in {IntSec(audio[i].time) : i \in DOMAIN audio} |->
        LET idx == {i \in DOMAIN audio : IntSec(audio[i].time) = k}
            last == CHOOSE i \in idx : \A j \in idx : j <= i
        IN  audio[last].text]

NoMatch == [found |-> FALSE, score |-> <<0, 1>>, text |-> <<>>, time |-> -1]

\* if score > best_score and score > 0.3, for a candidate that is in
\* audio_dict and not in used_audio
Consider(best, dict, used, a_time, score) ==
    IF /\ a_time \in DOMAIN dict
       /\ a_time \notin used
       /\ FracGt(score, best.score)
       /\ FracGt(score, MatchThreshold)
    THEN [found |-> TRUE, score |-> score, text |-> dict[a_time], time |-> a_time]
    ELSE best

RECURSIVE ScanWindow(_, _, _, _, _, _)
\* for a_time in range(max(0, v_time_int - 2), v_time_int + 3): keep the first
\* unused candidate whose score beats the best so far and the threshold
ScanWindow(v_text, dict, used, a_time, hi, best) ==
    IF a_time > hi THEN best
    ELSE ScanWindow(v_text, dict, used, a_time + 1, hi,
                    Consider(best, dict, used, a_time,
                             IF a_time \in DOMAIN dict
                             THEN similar(v_text, dict[a_time]) ELSE <<0, 1>>))

\* a slip: the window reaches one second further
BestMatchWide(v, dict, used) ==
    ScanWindow(v.text, dict, used,
               Max(0, IntSec(v.time) - WindowSec), IntSec(v.time) + WindowSec + 1, NoMatch)

BestMatch(v, dict, used) ==
    ScanWindow(v.text, dict, used,
               Max(0, IntSec(v.time) - WindowSec), IntSec(v.time) + WindowSec, NoMatch)

\* a slip: a tie in length goes to the audio text
FinalTextTiesToAudio(best_match, v_text) ==
    IF Len(best_match) >= Len(v_text) THEN best_match ELSE v_text

\* final_text = best_match if len(best_match) > len(v_text) else v_text
FinalText(best_match, v_text) ==
    IF Len(best_match) > Len(v_text) THEN best_match ELSE v_text

\* a slip: a video entry without a match is not emitted
HandleVideoSkipUnmatched(v, st, best) ==
    LET hit == best.found /\ best.text # <<>>
        text == IF hit THEN FinalText(best.text, v.text) ELSE v.text
        emit == hit /\ text \notin st.seen
    IN  [merged  |-> IF emit
                     THEN Append(st.merged, [time |-> v.time, text |-> text])
                     ELSE st.merged,
         used    |-> IF hit THEN st.used \cup {best.time} ELSE st.used,
         seen    |-> st.seen \cup {text},
         matches |-> Append(st.matches,
                            [hit |-> hit, atime |-> best.time, atext |-> best.text,
                             emitted |-> emit, text |-> text,
                             pos |-> Len(st.merged) + 1])]

\* lines 42-53 for the video entry v and its best match; st = [merged,
\* used, seen, matches]
HandleVideo(v, st, best) ==
    LET \* `if best_match:` is the truth value of the matched text
        hit == best.found /\ best.text # <<>>
        text == IF hit THEN FinalText(best.text, v.text) ELSE v.text
        emit == text \notin st.seen
    IN  [merged  |-> IF emit
                     THEN Append(st.merged, [time |-> v.time, text |-> text])
                     ELSE st.merged,
         used    |-> IF hit THEN st.used \cup {best.time} ELSE st.used,
         seen    |-> st.seen \cup {text},
         matches |-> Append(st.matches,
                            [hit |-> hit, atime |-> best.time, atext |-> best.text,
                             emitted |-> emit, text |-> text,
                             pos |-> Len(st.merged) + 1])]

RECURSIVE MatchVideo(_, _, _, _)
\* the loop over video_subs (lines 26-53)
MatchVideo(video, dict, i, st) ==
    IF i > Len(video) THEN st
    ELSE MatchVideo(video, dict, i + 1,
                    HandleVideo(video[i], st, BestMatch(video[i], dict, st.used)))

\* a slip: an entry exactly 2 seconds away overlaps too
OverlapsInclusive(merged, a_time) ==
    \E k \in DOMAIN merged : Abs(merged[k].time - a_time) <= WindowSec * TicksPerSec

\* abs(m_time - a_time) < 2 for some already emitted entry
Overlaps(merged, a_time) ==
    \E k \in DOMAIN merged : Abs(merged[k].time - a_time) < WindowSec * TicksPerSec

\* a slip: the test `a_time_int not in used_audio` is left out
EmitLeftoverIgnoringUsed(a, used, merged, seen) ==
    /\ a.text \notin seen
    /\ ~Overlaps(merged, a.time)

\* if a_time_int not in used_audio and a_text not in seen_texts: ... if not overlap
EmitLeftover(a, used, merged, seen) ==
    /\ IntSec(a.time) \notin used
    /\ a.text \notin seen
    /\ ~Overlaps(merged, a.time)

\* lines 65-67 for the audio entry a; st = [merged, seen, log]
HandleAudio(a, st, emit) ==
    [merged |-> IF emit THEN Append(st.merged, a) ELSE st.merged,
     seen   |-> IF emit THEN st.seen \cup {a.text} ELSE st.seen,
     log    |-> Append(st.log, [emitted |-> emit, before |-> Len(st.merged)])]

RECURSIVE AddLeftovers(_, _, _, _)
\* the loop over audio_subs (lines 56-67)
AddLeftovers(audio, used, i, st) ==
    IF i > Len(audio) THEN st
    ELSE AddLeftovers(audio, used, i + 1,
                      HandleAudio(audio[i], st,
                                  EmitLeftover(audio[i], used, st.merged, st.seen)))

RECURSIVE InsertByTime(_, _)
\* e goes after every entry whose time is <= its own: the sort is stable
InsertByTime(sorted, e) ==
    IF sorted = <<>> THEN <<e>>
    ELSE IF Head(sorted).time <= e.time
         THEN <<Head(sorted)>> \o InsertByTime(Tail(sorted), e)
         ELSE <<e>> \o sorted

\* a slip: the list is left in emission order
SortByTimeSkipped(s) == s

RECURSIVE SortByTime(_)
\* merged.sort(key=lambda x: x[0])
SortByTime(s) ==
    IF s = <<>> THEN <<>>
    ELSE InsertByTime(SortByTime(SubSeq(s, 1, Len(s) - 1)), s[Len(s)])

\* a slip: only the entry kept last is compared
IsSimilarToLast(text, kept) ==
    kept # <<>> /\ FracGt(similar(text, kept[Len(kept)].text), DedupThreshold)

\* similar(text, seen_text) > 0.7 for some text kept so far
IsSimilar(text, kept) ==
    \E k \in DOMAIN kept : FracGt(similar(text, kept[k].text), DedupThreshold)

\* a slip: the length of the cleaned text is not tested
KeepAnyLength(kept, time, text) ==
    IF text = <<>> THEN kept
    ELSE IF IsSimilar(text, kept) THEN kept
         ELSE Append(kept, [time |-> time, text |-> text])

\* lines 81-94 for an entry with the cleaned text
Keep(kept, time, text) ==
    IF text = <<>> \/ Len(text) < MinTextLen THEN kept
    ELSE IF IsSimilar(text, kept) THEN kept
         ELSE Append(kept, [time |-> time, text |-> text])

RECURSIVE Dedup(_, _, _)
\* the loop over the sorted list (lines 76-94)
Dedup(sorted, i, kept) ==
    IF i > Len(sorted) THEN kept
    ELSE Dedup(sorted, i + 1, Keep(kept, sorted[i].time, CleanText(sorted[i].text)))

Step1(video, audio) ==
    MatchVideo(video, AudioDict(audio), 1,
               [merged |-> <<>>, used |-> {}, seen |-> {}, matches |-> <<>>])

Step2(audio, st) ==
    AddLeftovers(audio, st.used, 1, [merged |-> st.merged, seen |-> st.seen, log |-> <<>>])

Step3(merged) == Dedup(SortByTime(merged), 1, <<>>)

\* the locals of merge_subtitles when it returns
Finish(st, st2) ==
    [merged1 |-> st.merged, used |-> st.used, matches |-> st.matches,
     log |-> st2.log, merged2 |-> st2.merged, final |-> Step3(st2.merged)]

AfterStep1(audio, st) == Finish(st, Step2(audio, st))

Merge(video, audio) == AfterStep1(audio, Step1(video, audio))

-----------------------------------------------------------------------------
(* The pipeline entry points and their temporary files *)

Invs == {"smart", "video"}

NoResult == [kind |-> "none"]

PipeIdle ==
    /\ video_file = [q \in Invs |-> FALSE]
    /\ ppc = [q \in Invs |-> "idle"]
    /\ files = {}
    /\ extracted = [q \in Invs |-> <<>>]
    /\ transcript = NoResult
    /\ pending = [q \in Invs |-> NoResult]
    /\ result = [q \in Invs |-> NoResult]

FrameIdle ==
    /\ opened = FALSE
    /\ fps = 0
    /\ interval_seconds = 10
    /\ nframes = 0
    /\ interval = 0
    /\ frame_count = 0
    /\ decoded = 0
    /\ subtitles = <<>>
    /\ submitted = <<>>
    /\ fpc = "idle"

TextIdle ==
    /\ message_content = <<>>
    /\ once = <<>>
    /\ twice = <<>>
    /\ audio_content = <<>>
    /\ audio_subtitles = <<>>
    /\ parse_result = "none"
    /\ tpc = "idle"

-----------------------------------------------------------------------------
(* RateLimiter, shared by every caller through the module-level instance *)

Procs == {"p1", "p2"}

\* self.min_interval = 60.0 / rpm_limit
MinInterval == 60 \div RPM_LIMIT

\* the process starts long after the epoch that last_request_time = 0 names
StartTime == MinInterval

InWait == {"read", "check", "sleep", "record"}

RateIdle ==
    /\ now = StartTime
    /\ last_request_time = 0
    /\ rpc = [p \in Procs |-> "idle"]
    /\ current_time = [p \in Procs |-> 0]
    /\ wake = [p \in Procs |-> 0]
    /\ calls = 0
    /\ returns = <<>>

\* time passes
Tick ==
    /\ now < StartTime + MaxElapsed
    /\ now' = now + 1
    /\ UNCHANGED <<last_request_time, rpc, current_time, wake, calls, returns>>
    /\ UNCHANGED <<mergeVars, frameVars, textVars, retryVars, pipeVars>>

\* rate_limiter.wait_if_needed() is entered (line 102)
EnterWait(p) ==
    /\ rpc' = [rpc EXCEPT ![p] = "read"]
    /\ calls' = calls + 1
    /\ UNCHANGED <<now, last_request_time, current_time, wake, returns>>

\* current_time = time.time()
ReadClock(p) ==
    /\ rpc[p] = "read"
    /\ current_time' = [current_time EXCEPT ![p] = now]
    /\ rpc' = [rpc EXCEPT ![p] = "check"]
    /\ UNCHANGED <<now, last_request_time, wake, calls, returns>>
    /\ UNCHANGED <<mergeVars, frameVars, textVars, retryVars, pipeVars>>

\* a slip: the caller waits one second less than it has to
SleepTimeShort(elapsed) == MinInterval - elapsed - 1

\* sleep_time = self.min_interval - elapsed
SleepTime(elapsed) == MinInterval - elapsed

\* elapsed = current_time - self.last_request_time; if elapsed < self.min_interval:
\* time.sleep(sleep_time) starts
CheckElapsed(p) ==
    /\ rpc[p] = "check"
    /\ LET elapsed == current_time[p] - last_request_time
       IN  IF elapsed < MinInterval
           THEN /\ wake' = [wake EXCEPT ![p] = now + SleepTime(elapsed)]
                /\ rpc' = [rpc EXCEPT ![p] = "sleep"]
           ELSE /\ wake' = wake
                /\ rpc' = [rpc EXCEPT ![p] = "record"]
    /\ UNCHANGED <<now, last_request_time, current_time, calls, returns>>
    /\ UNCHANGED <<mergeVars, frameVars, textVars, retryVars, pipeVars>>

\* time.sleep(sleep_time) returns, no earlier than asked
WakeUp(p) ==
    /\ rpc[p] = "sleep"
    /\ now >= wake[p]
    /\ rpc' = [rpc EXCEPT ![p] = "record"]
    /\ UNCHANGED <<now, last_request_time, current_time, wake, calls, returns>>
    /\ UNCHANGED <<mergeVars, frameVars, textVars, retryVars, pipeVars>>

\* self.last_request_time = time.time(), and wait_if_needed returns
Record(p) ==
    /\ rpc[p] = "record"
    /\ last_request_time' = now
    /\ returns' = Append(returns, [at |-> now, by |-> p, slept |-> wake[p] > 0])
    /\ wake' = [wake EXCEPT ![p] = 0]
    /\ rpc' = [rpc EXCEPT ![p] = "request"]
    /\ UNCHANGED <<now, current_time, calls>>
    /\ UNCHANGED <<mergeVars, frameVars, textVars, retryVars, pipeVars>>

\* an attempt of extract_text_from_frame starts while no other caller is
\* inside wait_if_needed: serialized access
CallSerial(p) ==
    /\ rpc[p] = "idle"
    /\ calls < MaxCalls
    /\ \A q \in Procs : rpc[q] \notin InWait
    /\ EnterWait(p)
    /\ UNCHANGED <<mergeVars, frameVars, textVars, retryVars, pipeVars>>

\* an attempt of extract_text_from_frame starts, whatever the other caller does
CallShared(p) ==
    /\ rpc[p] = "idle"
    /\ calls < MaxCalls
    /\ EnterWait(p)
    /\ UNCHANGED <<mergeVars, frameVars, textVars, retryVars, pipeVars>>

\* the rest of the attempt (lines 103-190) ends, one way or the other
AttemptEnds(p) ==
    /\ rpc[p] = "request"
    /\ rpc' = [rpc EXCEPT ![p] = "idle"]
    /\ UNCHANGED <<now, last_request_time, current_time, wake, calls, returns>>
    /\ UNCHANGED <<mergeVars, frameVars, textVars, retryVars, pipeVars>>

MergeIdle ==
    /\ video_subs = <<>>
    /\ audio_subs = <<>>
    /\ merged1 = <<>>
    /\ used_audio = {}
    /\ matches = <<>>
    /\ leftovers = <<>>
    /\ merged2 = <<>>
    /\ final_subs = <<>>
    /\ mpc = "idle"

RetryIdle ==
    /\ attempt = 0
    /\ trace = <<>>
    /\ outcome = [kind |-> "none"]

InitRate == MergeIdle /\ RateIdle /\ RetryIdle /\ PipeIdle /\ FrameIdle /\ TextIdle

NextSerial ==
    \/ Tick
    \/ \E p \in Procs :
          \/ CallSerial(p)
          \/ ReadClock(p)
          \/ CheckElapsed(p)
          \/ WakeUp(p)
          \/ Record(p)
          \/ AttemptEnds(p)

NextShared ==
    \/ Tick
    \/ \E p \in Procs :
          \/ CallShared(p)
          \/ ReadClock(p)
          \/ CheckElapsed(p)
          \/ WakeUp(p)
          \/ Record(p)
          \/ AttemptEnds(p)

SpecSerial == InitRate /\ [][NextSerial]_vars

SpecShared == InitRate /\ [][NextShared]_vars

-----------------------------------------------------------------------------
(* extract_text_from_frame: the text filter and tenacity's retry *)

DQuote == "\""
SQuote == "'"

\* ignore_phrases, one string per character (in pinyin)
IgnorePhrases ==
    { <<"tu", "pian", "zhong">>, <<"xian", "shi4">>, <<"zi", "mu", "shi">>,
      <<"nei", "rong", "shi">>, <<"wen", "zi", "shi">>, <<"wo", "kan", "dao">>,
      <<"zhe", "shi">>, <<"zhe", "ge">>, <<"you">>, <<"mei", "you">>,
      <<"zi", "mu", "nei", "rong">>, <<"wen", "ben">>, <<"shi2", "bie", "dao">> }

\* phrase in text
Contains(text, phrase) ==
    \E i \in 1 .. (Len(text) - Len(phrase) + 1) :
        SubSeq(text, i, i + Len(phrase) - 1) = phrase

RECURSIVE LStripChar(_, _)
LStripChar(s, c) == IF s # <<>> /\ Head(s) = c THEN LStripChar(Tail(s), c) ELSE s

RECURSIVE RStripChar(_, _)
RStripChar(s, c) ==
    IF s # <<>> /\ s[Len(s)] = c THEN RStripChar(SubSeq(s, 1, Len(s) - 1), c) ELSE s

\* text.strip(c) for a one-character c
StripChar(s, c) == RStripChar(LStripChar(s, c), c)

\* lines 163-184: what the call returns for the content of a 200 response
TextFilter(content) ==
    LET text == Strip(content)
    IN  IF \E phrase \in IgnorePhrases : Contains(text, phrase) THEN <<>>
        ELSE IF Len(text) > MaxTextLen THEN <<>>
        ELSE LET unquoted == StripChar(StripChar(text, DQuote), SQuote)
             IN  IF unquoted # <<>> /\ Len(unquoted) > 1 THEN Strip(unquoted) ELSE <<>>

\* a slip: one attempt more is made before giving up
StopAfterAttemptLate(n) == n > MaxAttempts

\* stop=stop_after_attempt(3)
StopAfterAttempt(n) == n >= MaxAttempts

RECURSIVE Pow2(_)
Pow2(n) == IF n <= 0 THEN 1 ELSE 2 * Pow2(n - 1)

\* wait=wait_exponential(multiplier=1, min=4, max=10), after attempt n
BackoffWait(n) == Max(Max(0, WaitMin), Min(WaitMultiplier * Pow2(n - 1), WaitMax))

\* what the recognition service may answer with status 200
RawTexts ==
    { <<>>, <<"a", "b">>, <<DQuote, "a", "b", DQuote>>, <<"zhe", "shi", "a", "b">>,
      [i \in 1 .. (MaxTextLen + 1) |-> "a"] }

\* what makes an attempt fail: a status other than 200, a transport error
Errors == {"status429", "timeout"}

\* the loop of extract_subtitles calls extract_text_from_frame(frame) for
\* the first sampled frame, or for the next one once the call before has
\* returned or raised (`except: continue`): the first attempt starts
StartFrame ==
    /\ rpc["p1"] \in {"idle", "done"}
    /\ calls < MaxCalls
    /\ attempt' = 1
    /\ trace' = <<>>
    /\ outcome' = [kind |-> "none"]
    /\ EnterWait("p1")
    /\ UNCHANGED <<mergeVars, frameVars, textVars, pipeVars>>

\* the service answers 200: the filtered text is returned
RequestOK ==
    /\ rpc["p1"] = "request"
    /\ \E raw \in RawTexts :
          /\ trace' = Append(trace, [ok |-> TRUE, raw |-> raw, err |-> "none"])
          /\ outcome' = [kind |-> "returned", text |-> TextFilter(raw)]
    /\ rpc' = [rpc EXCEPT !["p1"] = "done"]
    /\ UNCHANGED <<now, last_request_time, current_time, wake, calls, returns, attempt>>
    /\ UNCHANGED <<mergeVars, frameVars, textVars, pipeVars>>

\* the attempt raises: tenacity stops and re-raises it (reraise=True), or
\* sleeps before the next attempt
RequestFails ==
    /\ rpc["p1"] = "request"
    /\ \E err \in Errors :
          /\ trace' = Append(trace, [ok |-> FALSE, raw |-> <<>>, err |-> err])
          /\ IF StopAfterAttempt(attempt)
             THEN /\ outcome' = [kind |-> "raised", err |-> err]
                  /\ rpc' = [rpc EXCEPT !["p1"] = "done"]
                  /\ wake' = wake
             ELSE /\ outcome' = outcome
                  /\ rpc' = [rpc EXCEPT !["p1"] = "backoff"]
                  /\ wake' = [wake EXCEPT !["p1"] = now + BackoffWait(attempt)]
    /\ UNCHANGED <<now, last_request_time, current_time, calls, returns, attempt>>
    /\ UNCHANGED <<mergeVars, frameVars, textVars, pipeVars>>

\* a slip: only the first attempt waits for the rate limiter
RetryEntrySkipsWait == "request"

\* a retry calls the whole decorated function again, from
\* rate_limiter.wait_if_needed() (line 102) on
RetryEntry == "read"

\* the sleep between two attempts ends: the next attempt starts
NextAttempt ==
    /\ rpc["p1"] = "backoff"
    /\ now >= wake["p1"]
    /\ attempt' = attempt + 1
    /\ rpc' = [rpc EXCEPT !["p1"] = RetryEntry]
    /\ calls' = calls + 1
    /\ wake' = [wake EXCEPT !["p1"] = 0]
    /\ UNCHANGED <<now, last_request_time, current_time, returns>>
    /\ UNCHANGED <<trace, outcome>>
    /\ UNCHANGED <<mergeVars, frameVars, textVars, pipeVars>>

NextRetry ==
    \/ Tick
    \/ StartFrame
    \/ ReadClock("p1")
    \/ CheckElapsed("p1")
    \/ WakeUp("p1")
    \/ Record("p1")
    \/ RequestOK
    \/ RequestFails
    \/ NextAttempt

SpecRetry == InitRate /\ [][NextRetry]_vars

-----------------------------------------------------------------------------
(* The "[Ns] text" lines: written by transcribe_audio and by the entry      *)
(* points, read back by process_smart_subtitle                              *)

\* str(n) for a digit
Digits == {ToString(d) : d \in 0 .. 9}
DigitVal(c) == CHOOSE d \in 0 .. 9 : ToString(d) = c

\* f"[{int(timestamp)}s] {text}", the seconds below 10
FormatEntry(e) == <<"[", ToString(IntSec(e.time)), "s", "]", " ">> \o e.text

RECURSIVE JoinLines(_)
\* "\n".join(lines)
JoinLines(lines) ==
    IF lines = <<>> THEN <<>>
    ELSE IF Len(lines) = 1 THEN lines[1]
    ELSE lines[1] \o <<NL>> \o JoinLines(Tail(lines))

\* the text returned for a list of entries
Render(subs) == JoinLines([i \in DOMAIN subs |-> FormatEntry(subs[i])])

RECURSIVE SplitFrom(_, _, _)
\* s.split('\n'), from position i on, cur being the line read so far
SplitFrom(s, i, cur) ==
    IF i > Len(s) THEN <<cur>>
    ELSE IF s[i] = NL THEN <<cur>> \o SplitFrom(s, i + 1, <<>>)
    ELSE SplitFrom(s, i + 1, Append(cur, s[i]))

SplitLines(s) == SplitFrom(s, 1, <<>>)

\* float('nan'): what float() returns for "nan", here one character
NaN == -1

RECURSIVE Decimal(_)
Decimal(s) == IF s = <<>> THEN 0 ELSE 10 * Decimal(SubSeq(s, 1, Len(s) - 1)) + DigitVal(s[Len(s)])

\* float(time_str) succeeds: surrounding whitespace is ignored; of the
\* characters of these texts, digits and "nan" make a float
FloatParses(time_str) ==
    \/ Strip(time_str) = <<"nan">>
    \/ Strip(time_str) # <<>> /\ \A i \in DOMAIN Strip(time_str) : Strip(time_str)[i] \in Digits

\* float(time_str), in ticks
FloatOf(time_str) ==
    IF Strip(time_str) = <<"nan">> THEN NaN ELSE Decimal(Strip(time_str)) * TicksPerSec

\* line.index(sub) exists, for the one or two characters of sub
HasIndex(line, sub) ==
    \E i \in 1 .. (Len(line) - Len(sub) + 1) : SubSeq(line, i, i + Len(sub) - 1) = sub

Index(line, sub) ==
    CHOOSE i \in 1 .. (Len(line) - Len(sub) + 1) :
        /\ SubSeq(line, i, i + Len(sub) - 1) = sub
        /\ \A j \in 1 .. (i - 1) : SubSeq(line, j, j + Len(sub) - 1) # sub

\* time_str = line[1:line.index('s]')]
TimeStr(line) == SubSeq(line, 2, Index(line, <<"s", "]">>) - 1)

\* lines 123-131 for one line: the entries it adds to audio_subtitles
ParseLine(line) ==
    IF /\ line # <<>> /\ line[1] = "["
       /\ HasIndex(line, <<"]">>)
       /\ HasIndex(line, <<"s", "]">>)
       /\ FloatParses(TimeStr(line))
    THEN << [time |-> FloatOf(TimeStr(line)),
             text |-> Strip(SubSeq(line, Index(line, <<"]">>) + 1, Len(line)))] >>
    ELSE <<>>

RECURSIVE ParseAudio(_)
\* the loop over audio_content.split('\n') (lines 122-131)
ParseAudio(lines) ==
    IF lines = <<>> THEN <<>> ELSE ParseLine(lines[1]) \o ParseAudio(Tail(lines))

\* merge_subtitles raises at line 24: int(timestamp) of a NaN
MergeRaises(audio) == \E i \in DOMAIN audio : audio[i].time = NaN

-----------------------------------------------------------------------------
(* process_smart_subtitle and process_video *)

TempVideo(q) == <<q, "mp4">>
TempAudio(q) == <<q, "m4a">>

\* what extract_subtitles may return in these runs
PipeVideoStreams ==
    { <<>>,
      <<[time |-> 0, text |-> <<"a", "b">>]>>,
      <<[time |-> 0, text |-> <<"a", "b">>], [time |-> TicksPerSec, text |-> <<"b", "b">>]>>,
      <<[time |-> TicksPerSec, text |-> <<"a", "b", NL, "b", "b">>]>> }

\* the segments the transcription may hold: start and text
PipeAudioStreams ==
    { <<>>,
      <<[time |-> 1, text |-> <<" ", "a", "b", "b">>]>>,
      <<[time |-> 0, text |-> <<"b">>]>>,
      <<[time |-> 0, text |-> <<" ">>],
        [time |-> MaxSec * TicksPerSec, text |-> <<"b", "b">>]>>,
      <<[time |-> MaxSec * TicksPerSec, text |-> <<"b", "a", NL, "a", "a">>]>> }

InitPipe ==
    /\ MergeIdle
    /\ RateIdle
    /\ RetryIdle
    /\ FrameIdle
    /\ TextIdle
    /\ video_file \in [Invs -> BOOLEAN]
    /\ ppc = [q \in Invs |-> "start"]
    /\ files = {}
    /\ extracted = [q \in Invs |-> <<>>]
    /\ transcript = NoResult
    /\ pending = [q \in Invs |-> NoResult]
    /\ result = [q \in Invs |-> NoResult]

PipeUnchanged == UNCHANGED <<mergeVars, frameVars, textVars, rateVars, retryVars>>

\* a slip: the test for a missing file is left out
IsNoneNever(q) == FALSE

\* video_file is None
IsNone(q) == ~video_file[q]

\* if video_file is None: return "请上传视频文件"
NoFile(q) ==
    /\ ppc[q] = "start"
    /\ IsNone(q)
    /\ result' = [result EXCEPT ![q] = [kind |-> "no_file"]]
    /\ ppc' = [ppc EXCEPT ![q] = "returned"]
    /\ UNCHANGED <<video_file, files, extracted, transcript, pending>>
    /\ PipeUnchanged

\* the try block is entered
Enter(q) ==
    /\ ppc[q] = "start"
    /\ ~IsNone(q)
    /\ ppc' = [ppc EXCEPT ![q] = "mktemp"]
    /\ UNCHANGED <<video_file, files, extracted, transcript, pending, result>>
    /\ PipeUnchanged

\* with tempfile.NamedTemporaryFile(delete=False, suffix='.mp4') ...: the
\* upload is copied to a temporary file
CopyUpload(q) ==
    /\ ppc[q] = "mktemp"
    /\ files' = files \cup {TempVideo(q)}
    /\ ppc' = [ppc EXCEPT ![q] = "extract"]
    /\ UNCHANGED <<video_file, extracted, transcript, pending, result>>
    /\ PipeUnchanged

\* the temporary file is made and its path bound, and reading the upload fails
CopyFails(q) ==
    /\ ppc[q] = "mktemp"
    /\ files' = files \cup {TempVideo(q)}
    /\ ppc' = [ppc EXCEPT ![q] = "except"]
    /\ UNCHANGED <<video_file, extracted, transcript, pending, result>>
    /\ PipeUnchanged

\* extract_subtitles(temp_path, ...) returns; process_video deletes its
\* temporary file right after (os.unlink(temp_path), line 271) and formats
ExtractOK(q) ==
    /\ ppc[q] = "extract"
    /\ \E vs \in PipeVideoStreams :
          /\ extracted' = [extracted EXCEPT ![q] = vs]
          /\ IF q = "video"
             THEN /\ files' = files \ {TempVideo(q)}
                  /\ pending' = [pending EXCEPT ![q] =
                                   IF vs # <<>> THEN [kind |-> "subs"]
                                   ELSE [kind |-> "no_subs"]]
                  /\ ppc' = [ppc EXCEPT ![q] = "finally"]
             ELSE /\ files' = files
                  /\ pending' = pending
                  /\ ppc' = [ppc EXCEPT ![q] = "audio"]
    /\ UNCHANGED <<video_file, transcript, result>>
    /\ PipeUnchanged

\* extract_subtitles raises
ExtractFails(q) ==
    /\ ppc[q] = "extract"
    /\ ppc' = [ppc EXCEPT ![q] = "except"]
    /\ UNCHANGED <<video_file, files, extracted, transcript, pending, result>>
    /\ PipeUnchanged

\* extract_audio_from_video: the temporary audio file is made and ffmpeg
\* fills it
AudioOK ==
    /\ ppc["smart"] = "audio"
    /\ files' = files \cup {TempAudio("smart")}
    /\ ppc' = [ppc EXCEPT !["smart"] = "transcribe"]
    /\ UNCHANGED <<video_file, extracted, transcript, pending, result>>
    /\ PipeUnchanged

\* extract_audio_from_video: the temporary audio file is made, ffmpeg ends
\* with a return code other than 0, and the exception is raised again
AudioFails ==
    /\ ppc["smart"] = "audio"
    /\ files' = files \cup {TempAudio("smart")}
    /\ transcript' = [kind |-> "raised"]
    /\ ppc' = [ppc EXCEPT !["smart"] = "except"]
    /\ UNCHANGED <<video_file, extracted, pending, result>>
    /\ PipeUnchanged

\* transcribe_audio's finally: if os.path.exists(audio_path): os.unlink(audio_path)
TranscribeCleanup(fs) == fs \ {TempAudio("smart")}

\* "未能识别到任何语音内容" and f"转录音频时出错: {str(e)}", each as one character
NoSpeechText == <<"no speech">>
TranscribeErrorText == <<"transcribe error">>

RECURSIVE SegmentLines(_)
\* lines 71-75: f"[{int(float(start))}s] {text}" for every segment whose
\* stripped text is not empty
SegmentLines(segs) ==
    IF segs = <<>> THEN <<>>
    ELSE (IF Strip(segs[1].text) # <<>>
          THEN <<FormatEntry([time |-> segs[1].time, text |-> Strip(segs[1].text)])>>
          ELSE <<>>) \o SegmentLines(Tail(segs))

\* return "\n".join(result) if result else "未能识别到任何语音内容"
TranscriptText(segs) ==
    IF SegmentLines(segs) # <<>> THEN JoinLines(SegmentLines(segs)) ELSE NoSpeechText

\* transcribe_audio returns the segments as text, or the text of its error
Transcribe ==
    /\ ppc["smart"] = "transcribe"
    /\ \/ \E segs \in PipeAudioStreams :
             transcript' = [kind |-> "segments", text |-> TranscriptText(segs)]
       \/ transcript' = [kind |-> "error", text |-> TranscribeErrorText]
    /\ files' = TranscribeCleanup(files)
    /\ ppc' = [ppc EXCEPT !["smart"] = "merge"]
    /\ UNCHANGED <<video_file, extracted, pending, result>>
    /\ PipeUnchanged

\* audio_subtitles: the lines of audio_content that parse as "[Ns] text"
ParsedAudio ==
    IF transcript.kind \in {"segments", "error"}
    THEN ParseAudio(SplitLines(transcript.text))
    ELSE <<>>

\* a slip: an empty merge is formatted like any other
FormatResultAlwaysLines(subs) == [kind |-> "subs", subs |-> subs, text |-> Render(subs)]

\* lines 138-145: the formatted lines, or "未能提取到有效字幕"
FormatResult(subs) ==
    IF subs # <<>> THEN [kind |-> "subs", subs |-> subs, text |-> Render(subs)]
    ELSE [kind |-> "no_content"]

\* lines 122-145: parse, merge, format
MergeAndFormat ==
    /\ ppc["smart"] = "merge"
    /\ IF MergeRaises(ParsedAudio)
       THEN /\ pending' = pending
            /\ ppc' = [ppc EXCEPT !["smart"] = "except"]
       ELSE /\ \E subs \in {Merge(extracted["smart"], ParsedAudio).final} :
                  pending' = [pending EXCEPT !["smart"] = FormatResult(subs)]
            /\ ppc' = [ppc EXCEPT !["smart"] = "finally"]
    /\ UNCHANGED <<video_file, files, extracted, transcript, result>>
    /\ PipeUnchanged

\* except Exception as e: return the error message
Except(q) ==
    /\ ppc[q] = "except"
    /\ pending' = [pending EXCEPT ![q] = [kind |-> "error"]]
    /\ ppc' = [ppc EXCEPT ![q] = "finally"]
    /\ UNCHANGED <<video_file, files, extracted, transcript, result>>
    /\ PipeUnchanged

\* the finally clause: process_smart_subtitle deletes its temporary video
\* (lines 150-153); process_video only clears seen_texts (lines 318-321)
FinallyCleanup(q, fs) == IF q = "smart" THEN fs \ {TempVideo(q)} ELSE fs

Finally(q) ==
    /\ ppc[q] = "finally"
    /\ files' = FinallyCleanup(q, files)
    /\ result' = [result EXCEPT ![q] = pending[q]]
    /\ ppc' = [ppc EXCEPT ![q] = "returned"]
    /\ UNCHANGED <<video_file, extracted, transcript, pending>>
    /\ PipeUnchanged

NextPipe ==
    \/ \E q \in Invs :
          \/ NoFile(q)
          \/ Enter(q)
          \/ CopyUpload(q)
          \/ CopyFails(q)
          \/ ExtractOK(q)
          \/ ExtractFails(q)
          \/ Except(q)
          \/ Finally(q)
    \/ AudioOK
    \/ AudioFails
    \/ Transcribe
    \/ MergeAndFormat

SpecPipe == InitPipe /\ [][NextPipe]_vars

-----------------------------------------------------------------------------
(* extract_subtitles: the frame loop *)

\* the interval_seconds the callers pass, in tenths of a second:
\* VideoProcessMode.PRECISE, STANDARD (also process_smart_subtitle), FAST
IntervalTenths == {7, 10, 13}

FpsValues == 0 .. MaxFps

\* what extract_text_from_frame may return for a frame
FrameTexts == {<<>>, <<"a", "b">>}

\* interval = int(fps * interval_seconds)
IntervalFrames(f, tenths) == (f * tenths) \div 10

\* a slip: a frame whose recognition failed ends the extraction
AfterFrameErrorRaise == "raised"

\* except Exception as e: logger.error(...); continue
AfterFrameError == "loop"

InitFrames ==
    /\ MergeIdle
    /\ RateIdle
    /\ RetryIdle
    /\ PipeIdle
    /\ TextIdle
    /\ opened \in BOOLEAN
    /\ fps \in FpsValues
    /\ nframes \in 0 .. MaxFrames
    \* a source that cannot be opened reports 0 for every property and
    \* yields no frame
    /\ ~opened => fps = 0 /\ nframes = 0
    /\ interval_seconds \in IntervalTenths
    /\ interval = 0
    /\ frame_count = 0
    /\ decoded = 0
    /\ subtitles = <<>>
    /\ submitted = <<>>
    /\ fpc = "start"

FrameUnchanged == UNCHANGED <<mergeVars, rateVars, retryVars, pipeVars, textVars>>

\* lines 200-209: the capture is made, fps and interval are computed
OpenVideo ==
    /\ fpc = "start"
    /\ interval' = IntervalFrames(fps, interval_seconds)
    /\ fpc' = "loop"
    /\ UNCHANGED <<opened, fps, interval_seconds, nframes, frame_count, decoded,
                   subtitles, submitted>>
    /\ FrameUnchanged

\* a slip: the end of the video is never seen
EndReachedNever == FALSE

\* cap.isOpened() is false, or cap.read() gives ret = False
EndReached == ~opened \/ decoded = nframes

\* while cap.isOpened() is false, or cap.read() gives ret = False: the loop
\* ends, and subtitles is returned
EndOfVideo ==
    /\ fpc = "loop"
    /\ EndReached
    /\ fpc' = "returned"
    /\ UNCHANGED <<opened, fps, interval_seconds, nframes, interval, frame_count,
                   decoded, subtitles, submitted>>
    /\ FrameUnchanged

\* a frame is read and frame_count % interval raises ZeroDivisionError, which
\* the outer handler logs and raises again (lines 244-246)
ZeroInterval ==
    /\ fpc = "loop"
    /\ opened /\ decoded < nframes
    /\ interval = 0
    /\ decoded' = decoded + 1
    /\ fpc' = "raised"
    /\ UNCHANGED <<opened, fps, interval_seconds, nframes, interval, frame_count,
                   subtitles, submitted>>
    /\ FrameUnchanged

\* a frame is read that is not sampled: frame_count += 1
SkipFrame ==
    /\ fpc = "loop"
    /\ opened /\ decoded < nframes
    /\ interval # 0
    /\ frame_count % interval # 0
    /\ decoded' = decoded + 1
    /\ frame_count' = frame_count + 1
    /\ UNCHANGED <<opened, fps, interval_seconds, nframes, interval, subtitles,
                   submitted, fpc>>
    /\ FrameUnchanged

\* a frame is read and sampled, and extract_text_from_frame returns text:
\* the entry (frame_count / fps, text) is appended if text is not empty
RecognizeOK ==
    /\ fpc = "loop"
    /\ opened /\ decoded < nframes
    /\ interval # 0
    /\ frame_count % interval = 0
    /\ \E text \in FrameTexts :
          /\ submitted' = Append(submitted, [index |-> decoded, count |-> frame_count,
                                             ok |-> TRUE, text |-> text])
          /\ subtitles' = IF text # <<>>
                          THEN Append(subtitles, [time |-> <<frame_count, fps>>,
                                                  text |-> text])
                          ELSE subtitles
    /\ decoded' = decoded + 1
    /\ frame_count' = frame_count + 1
    /\ UNCHANGED <<opened, fps, interval_seconds, nframes, interval, fpc>>
    /\ FrameUnchanged

\* a frame is read and sampled, and extract_text_from_frame raises: the
\* handler's `continue` goes back to the head of the loop, past
\* `frame_count += 1`
RecognizeFails ==
    /\ fpc = "loop"
    /\ opened /\ decoded < nframes
    /\ interval # 0
    /\ frame_count % interval = 0
    /\ submitted' = Append(submitted, [index |-> decoded, count |-> frame_count,
                                       ok |-> FALSE, text |-> <<>>])
    /\ decoded' = decoded + 1
    /\ fpc' = AfterFrameError
    /\ UNCHANGED <<opened, fps, interval_seconds, nframes, interval, frame_count,
                   subtitles>>
    /\ FrameUnchanged

NextFrames ==
    \/ OpenVideo
    \/ EndOfVideo
    \/ ZeroInterval
    \/ SkipFrame
    \/ RecognizeOK
    \/ RecognizeFails

SpecFrames == InitFrames /\ [][NextFrames]_vars

\* the loop is sequential code without blocking calls of unbounded length:
\* a step that can be taken is taken
SpecFramesFair == SpecFrames /\ WF_vars(NextFrames)

-----------------------------------------------------------------------------
(* The text functions on their own: the filter of extract_text_from_frame  *)
(* and the audio line parser of process_smart_subtitle                     *)

\* the characters of a recognizer answer: whitespace, the two quotes, a
\* letter, and a character of an ignore phrase
ContentChars == {" ", DQuote, SQuote, "a", "you"}

RECURSIVE SeqsUpTo(_, _)
\* the sequences over S of length n or less
SeqsUpTo(S, n) ==
    IF n = 0 THEN {<<>>}
    ELSE SeqsUpTo(S, n - 1) \cup
         {Append(t, c) : t \in {u \in SeqsUpTo(S, n - 1) : Len(u) = n - 1}, c \in S}

\* answers at the length limit of the filter
LongContents ==
    { [i \in 1 .. MaxTextLen |-> "a"],
      [i \in 1 .. (MaxTextLen + 1) |-> "a"],
      <<DQuote>> \o [i \in 1 .. MaxTextLen |-> "a"] }

Contents == SeqsUpTo(ContentChars, MaxContentLen) \cup LongContents

\* lines an audio text may hold
AudioLines ==
    { <<>>,
      <<"b", "b">>,
      <<"[", "1", "s", "]", " ", "b", "b">>,
      <<"[", "2", "s", "]", "a", "b">>,
      <<"[", "1", "2", "s", "]", " ", "a", "]", "s", "]">>,
      <<"[", " ", "3", " ", "s", "]", " ", "a", "b">>,
      <<"[", "nan", "s", "]", " ", "a", "b">>,
      <<"[", "b", "s", "]", " ", "a", "b">>,
      <<"[", "1", "]", " ", "a", "b">>,
      <<"[", "]", "1", "s", "]", " ", "a", "b">>,
      <<"[", "1", "s", " ", "a", "b">>,
      <<"1", "s", "]", " ", "a", "b">>,
      <<"[", "s", "]", " ", "a", "b">> }

AudioContents == {JoinLines(ls) : ls \in SeqsUpTo(AudioLines, MaxLines)}

InitText ==
    /\ MergeIdle
    /\ RateIdle
    /\ RetryIdle
    /\ PipeIdle
    /\ FrameIdle
    /\ \/ /\ tpc = "filter"
          /\ message_content \in Contents
          /\ audio_content = <<>>
       \/ /\ tpc = "parse"
          /\ message_content = <<>>
          /\ audio_content \in AudioContents
    /\ once = <<>>
    /\ twice = <<>>
    /\ audio_subtitles = <<>>
    /\ parse_result = "none"

TextUnchanged == UNCHANGED <<mergeVars, rateVars, retryVars, pipeVars, frameVars>>

\* the filter of lines 162-184 is applied to the answer, and again to what
\* it returned
ApplyFilter ==
    /\ tpc = "filter"
    /\ once' = TextFilter(message_content)
    /\ twice' = TextFilter(TextFilter(message_content))
    /\ tpc' = "filtered"
    /\ UNCHANGED <<message_content, audio_content, audio_subtitles, parse_result>>
    /\ TextUnchanged

\* lines 121-135 of process_smart_subtitle: the parse loop, then the call
\* of merge_subtitles, which raises or returns
ParseAudioContent ==
    /\ tpc = "parse"
    /\ audio_subtitles' = ParseAudio(SplitLines(audio_content))
    /\ parse_result' = IF MergeRaises(ParseAudio(SplitLines(audio_content)))
                       THEN "raised" ELSE "merged"
    /\ tpc' = "parsed"
    /\ UNCHANGED <<message_content, once, twice, audio_content>>
    /\ TextUnchanged

NextText == ApplyFilter \/ ParseAudioContent

SpecText == InitText /\ [][NextText]_vars

-----------------------------------------------------------------------------
(* The inputs of merge_subtitles *)

Texts ==
    { <<"a", "b">>, <<"b", "b">>, <<"a", "b", "b">>,
      <<"a", "a", "b", "a">>, <<"b", "a", "a", "a">>,
      <<"a", " ", "D", "Y">>, <<"D", "D", "Y", "Y">> }

Times == 0 .. (MaxSec * TicksPerSec)

Entries == [time : Times, text : Texts]

\* a TextStream is non-decreasing in timestamp
IsStream(s) == \A i \in 1 .. (Len(s) - 1) : s[i].time <= s[i + 1].time

StreamsOfLen(n) == {s \in [1 .. n -> Entries] : IsStream(s)}

InitMerge ==
    /\ \E nv \in 0 .. MaxEntries :
          \E na \in 0 .. (MaxEntries - nv) :
             /\ video_subs \in StreamsOfLen(nv)
             /\ audio_subs \in StreamsOfLen(na)
    /\ merged1 = <<>>
    /\ used_audio = {}
    /\ matches = <<>>
    /\ leftovers = <<>>
    /\ merged2 = <<>>
    /\ final_subs = <<>>
    /\ mpc = "input"
    /\ RateIdle
    /\ RetryIdle
    /\ PipeIdle
    /\ FrameIdle
    /\ TextIdle

MergeSubtitles ==
    /\ mpc = "input"
    /\ \E r \in {Merge(video_subs, audio_subs)} :
          /\ merged1' = r.merged1
          /\ used_audio' = r.used
          /\ matches' = r.matches
          /\ leftovers' = r.log
          /\ merged2' = r.merged2
          /\ final_subs' = r.final
    /\ mpc' = "done"
    /\ UNCHANGED <<video_subs, audio_subs, rateVars, retryVars, pipeVars, frameVars, textVars>>

NextMerge == MergeSubtitles

SpecMerge == InitMerge /\ [][NextMerge]_vars
-----------------------------------------------------------------------------
(* Properties of merge_subtitles, checked under SpecMerge *)

MergeDone == mpc = "done"

TwoSec == WindowSec * TicksPerSec

\* C1: the list returned by merge_subtitles is sorted ascending by
\* timestamp: of two adjacent entries the earlier one's timestamp is <= the
\* later one's.
C1_OutputSorted ==
    MergeDone =>
        \A i \in 1 .. (Len(final_subs) - 1) : final_subs[i].time <= final_subs[i + 1].time

\* two entries returned, which were emitted in the opposite order
C1_Witness ==
    /\ MergeDone
    /\ Len(final_subs) >= 2
    /\ \E i \in 1 .. (Len(merged2) - 1) : merged2[i].time > merged2[i + 1].time

\* C2: the returned list holds no two distinct entries whose texts have a
\* similarity above 0.7, whichever of the two is given to similar() first.
C2_NoSimilarPair ==
    MergeDone =>
        \A i, j \in DOMAIN final_subs :
            i # j => ~FracGt(similar(final_subs[i].text, final_subs[j].text), DedupThreshold)

\* an input entry is in the returned list, cleaned, at its own timestamp
Survives(e) ==
    \E k \in DOMAIN final_subs :
        final_subs[k].time = e.time /\ final_subs[k].text = CleanText(e.text)

\* C3 as stated: of a video entry and an audio entry at most 2 seconds apart
\* with similarity above 0.3, at most one survives, and the survivor is the
\* longer text.
C3_AnyClosePair ==
    MergeDone =>
        \A i \in DOMAIN video_subs : \A j \in DOMAIN audio_subs :
            LET v == video_subs[i]
                a == audio_subs[j]
            IN  (/\ Abs(v.time - a.time) <= TwoSec
                 /\ FracGt(similar(v.text, a.text), MatchThreshold))
                => /\ (Survives(v) /\ Survives(a))
                        => (v.time = a.time /\ CleanText(v.text) = CleanText(a.text))
                   /\ Survives(v) => Len(v.text) >= Len(a.text)
                   /\ Survives(a) => Len(a.text) >= Len(v.text)

\* C3, amended: for a video entry and the audio text it was matched with in
\* step 1, at most one entry is emitted: no audio entry of the matched
\* integer second is emitted by step 2, and an entry emitted for the pair is
\* at the video entry's timestamp and carries a text that is one of the two
\* and at least as long as both.
C3_MatchedPair ==
    MergeDone =>
        \A i \in DOMAIN video_subs :
            matches[i].hit =>
                /\ \A j \in DOMAIN audio_subs :
                       IntSec(audio_subs[j].time) = matches[i].atime => ~leftovers[j].emitted
                /\ \A k \in (Len(merged1) + 1) .. Len(merged2) :
                       IntSec(merged2[k].time) # matches[i].atime
                /\ matches[i].emitted =>
                       LET e == merged1[matches[i].pos]
                       IN  /\ e.time = video_subs[i].time
                           /\ e.text \in {video_subs[i].text, matches[i].atext}
                           /\ Len(e.text) >= Len(video_subs[i].text)
                           /\ Len(e.text) >= Len(matches[i].atext)

\* a matched pair whose audio entry is at least 2 seconds from the entry
\* emitted for the pair and carries a text that entry does not: only the
\* consumed mark keeps step 2 from emitting it
C3_Witness ==
    /\ MergeDone
    /\ \E i \in DOMAIN video_subs : \E j \in DOMAIN audio_subs :
          /\ matches[i].hit
          /\ matches[i].emitted
          /\ IntSec(audio_subs[j].time) = matches[i].atime
          /\ audio_subs[j].text = matches[i].atext
          /\ audio_subs[j].text # matches[i].text
          /\ Abs(audio_subs[j].time - video_subs[i].time) >= TwoSec
          /\ Len(merged2) = 1

\* C4 as stated: a match consumes the audio entry and emits exactly one
\* entry at the video timestamp, with the audio text if it is strictly the
\* longer and the video text otherwise.
C4_AlwaysOneEntry ==
    MergeDone =>
        \A i \in DOMAIN video_subs :
            matches[i].hit =>
                /\ matches[i].atime \in used_audio
                /\ matches[i].emitted
                /\ merged1[matches[i].pos] =
                       [time |-> video_subs[i].time,
                        text |-> IF Len(matches[i].atext) > Len(video_subs[i].text)
                                 THEN matches[i].atext ELSE video_subs[i].text]

\* the text the pair of video entry i is to carry
C4_PairText(i) ==
    IF Len(matches[i].atext) > Len(video_subs[i].text)
    THEN matches[i].atext ELSE video_subs[i].text

\* C4, amended: a match consumes the audio entry and emits exactly one entry
\* at the video timestamp with the longer text (ties keep the video text),
\* unless an entry emitted before it already carries that very text: then
\* nothing is emitted for the pair.  Video (t, "ab") with audio (t, "abb")
\* gives the single entry (t, "abb").
C4_OneEntryUnlessSeen ==
    MergeDone =>
        /\ \A i \in DOMAIN video_subs :
              matches[i].hit =>
                  /\ matches[i].atime \in used_audio
                  /\ matches[i].emitted
                        <=> (\A k \in 1 .. (matches[i].pos - 1) :
                                merged1[k].text # C4_PairText(i))
                  /\ matches[i].emitted =>
                        /\ matches[i].pos \in DOMAIN merged1
                        /\ merged1[matches[i].pos] =
                              [time |-> video_subs[i].time, text |-> C4_PairText(i)]
                        /\ \A j \in DOMAIN video_subs :
                              (j # i /\ matches[j].emitted) => matches[j].pos # matches[i].pos
        /\ \A t \in Times :
              (/\ video_subs = <<[time |-> t, text |-> <<"a", "b">>]>>
               /\ audio_subs = <<[time |-> t, text |-> <<"a", "b", "b">>]>>)
              => final_subs = <<[time |-> t, text |-> <<"a", "b", "b">>]>>

\* a match of two different texts of the same length, emitted
C4_Witness ==
    /\ MergeDone
    /\ \E i \in DOMAIN video_subs :
          /\ matches[i].hit
          /\ matches[i].emitted
          /\ matches[i].atext # video_subs[i].text
          /\ Len(matches[i].atext) = Len(video_subs[i].text)

\* what step 2 saw of audio entry j: the entries emitted before it
EmittedBefore(j) == SubSeq(merged2, 1, leftovers[j].before)

\* some entry emitted before audio entry j is less than 2 seconds from it
C5_Within2s(j) ==
    \E k \in DOMAIN EmittedBefore(j) :
        Abs(EmittedBefore(j)[k].time - audio_subs[j].time) < TwoSec

\* C5 as stated: an audio entry not consumed in step 1 is emitted unchanged
\* if and only if no already-emitted entry lies within 2 seconds of it.
C5_EmittedIffNoOverlap ==
    MergeDone =>
        \A j \in DOMAIN audio_subs :
            IntSec(audio_subs[j].time) \notin used_audio =>
                (leftovers[j].emitted <=> ~C5_Within2s(j))

\* C5, amended: an audio entry whose integer second was not consumed in
\* step 1 is emitted unchanged if and only if no already-emitted entry
\* carries the same text and none lies less than 2 seconds from it; an entry
\* of a consumed second is never emitted.  Video (0, "ab") with audio
\* (3, "bb"), outside the window, gives the two entries.
C5_EmittedIffNewAndNoOverlap ==
    MergeDone =>
        /\ \A j \in DOMAIN audio_subs :
              /\ leftovers[j].emitted
                    <=> /\ IntSec(audio_subs[j].time) \notin used_audio
                        /\ \A k \in DOMAIN EmittedBefore(j) :
                               EmittedBefore(j)[k].text # audio_subs[j].text
                        /\ ~C5_Within2s(j)
              /\ leftovers[j].emitted => merged2[leftovers[j].before + 1] = audio_subs[j]
        /\ (/\ video_subs = <<[time |-> 0, text |-> <<"a", "b">>]>>
            /\ audio_subs = <<[time |-> MaxSec * TicksPerSec, text |-> <<"b", "b">>]>>)
           => final_subs = <<[time |-> 0, text |-> <<"a", "b">>],
                             [time |-> MaxSec * TicksPerSec, text |-> <<"b", "b">>]>>

\* an unconsumed audio entry exactly 2 seconds from an emitted one is emitted
C5_Witness ==
    /\ MergeDone
    /\ \E j \in DOMAIN audio_subs :
          /\ leftovers[j].emitted
          /\ \E k \in DOMAIN EmittedBefore(j) :
                Abs(EmittedBefore(j)[k].time - audio_subs[j].time) = TwoSec

\* the candidates of the final dedup: the sorted list, cleaned, without the
\* texts shorter than 2 characters
C6_Candidates ==
    LET sorted == SortByTime(merged2)
        clean == [k \in DOMAIN sorted |->
                    [time |-> sorted[k].time, text |-> CleanText(sorted[k].text)]]
    IN  SelectSeq(clean, LAMBDA e : Len(e.text) >= MinTextLen)

\* the candidates of the index set K, in order
C6_Pick(cand, K) ==
    LET F[n \in 0 .. Len(cand)] ==
            IF n = 0 THEN <<>>
            ELSE IF n \in K THEN Append(F[n - 1], cand[n]) ELSE F[n - 1]
    IN  F[Len(cand)]

\* C6: the final dedup is greedy and first-seen-wins over the sorted list:
\* a candidate is kept if and only if its similarity to every candidate kept
\* before it (not only the last one) is <= 0.7.  Of ("ab") and a later
\* ("abb") only the first is returned.
C6_GreedyDedup ==
    MergeDone =>
        /\ \E K \in SUBSET DOMAIN C6_Candidates :
              /\ final_subs = C6_Pick(C6_Candidates, K)
              /\ \A i \in DOMAIN C6_Candidates :
                    i \in K <=>
                        \A j \in K :
                            j < i => ~FracGt(similar(C6_Candidates[i].text,
                                                     C6_Candidates[j].text), DedupThreshold)
        /\ (/\ video_subs = <<[time |-> 1, text |-> <<"a", "b">>],
                              [time |-> 2, text |-> <<"a", "b", "b">>]>>
            /\ audio_subs = <<>>)
           => final_subs = <<[time |-> 1, text |-> <<"a", "b">>]>>

\* three candidates, the third dropped for its similarity to the first while
\* it is not similar to the second
C6_Witness ==
    /\ MergeDone
    /\ Len(C6_Candidates) = 3
    /\ Len(final_subs) = 2
    /\ final_subs[1] = C6_Candidates[1]
    /\ final_subs[2] = C6_Candidates[2]
    /\ ~FracGt(similar(C6_Candidates[3].text, C6_Candidates[2].text), DedupThreshold)
-----------------------------------------------------------------------------
(* Properties of the rate limiter, checked under SpecSerial and SpecShared *)

\* any two successive returns of wait_if_needed are min_interval apart
Spaced ==
    \A i \in 1 .. (Len(returns) - 1) : returns[i + 1].at - returns[i].at >= MinInterval

\* C8: under serialized access each call of wait_if_needed returns no
\* earlier than min_interval after the previous call returned, and on return
\* last_request_time holds the instant of that return.
C8_SerialSpacing ==
    /\ Spaced
    /\ returns # <<>> => last_request_time = returns[Len(returns)].at

\* a call that had to sleep returned exactly min_interval after the previous
C8_Witness ==
    /\ Len(returns) >= 2
    /\ returns[2].slept
    /\ returns[2].at = returns[1].at + MinInterval
    /\ returns[2].by # returns[1].by

\* C9: with the one RateLimiter shared by two concurrently running
\* invocations, any two returns of wait_if_needed, from whichever
\* invocation, are still at least min_interval apart.
C9_SharedSpacing == Spaced
-----------------------------------------------------------------------------
(* Properties of the retrying recognizer, checked under SpecRetry *)

AllFailed(k) == \A i \in 1 .. k : ~trace[i].ok

\* C7: at most 3 attempts are made for a frame; the call returns the result
\* of the attempt that succeeded, which every attempt before it failed (so
\* the third one after two failures); after three failures exactly 3
\* attempts were made and the failure of the last one is raised.
C7_BoundedRetry ==
    /\ attempt <= MaxAttempts
    /\ Len(trace) <= MaxAttempts
    /\ Len(trace) <= attempt
    /\ outcome.kind = "none" => AllFailed(Len(trace)) /\ Len(trace) < MaxAttempts
    /\ outcome.kind = "returned" =>
          /\ Len(trace) = attempt
          /\ AllFailed(Len(trace) - 1)
          /\ trace[Len(trace)].ok
          /\ outcome.text = TextFilter(trace[Len(trace)].raw)
    /\ outcome.kind = "raised" =>
          /\ attempt = MaxAttempts
          /\ Len(trace) = MaxAttempts
          /\ AllFailed(MaxAttempts)
          /\ outcome.err = trace[MaxAttempts].err

\* three failures, the last one unlike the first, and the last one raised
C7_Witness ==
    /\ outcome.kind = "raised"
    /\ Len(trace) = MaxAttempts
    /\ trace[1].err # trace[MaxAttempts].err
    /\ outcome.err = trace[MaxAttempts].err
-----------------------------------------------------------------------------
(* Properties of the pipeline entry points, checked under SpecPipe *)

\* the temporary files invocation q made that still exist
Leftover(q) == {f \in files : f[1] = q}

\* C10: on every exit path of a pipeline invocation, every temporary file
\* the invocation made (the copy of the video, the audio file) has been
\* deleted when the invocation returns.
C10_NoTempFileLeft ==
    \A q \in Invs : ppc[q] = "returned" => Leftover(q) = {}

-----------------------------------------------------------------------------
(* Properties of the frame loop of extract_subtitles, checked under SpecFrames *)

\* the calls of extract_text_from_frame that returned text that is not empty
Recognised == SelectSeq(submitted, LAMBDA r : r.ok /\ r.text # <<>>)

\* C11: a frame whose recognition fails is skipped and the loop goes on:
\* extract_subtitles never raises once a frame has been submitted, it
\* returns only when every frame of the video has been read, and the list
\* it builds holds, in order, one entry for every frame that was recognised
\* with a text that is not empty.
C11_FailureSkipsFrame ==
    /\ fpc = "raised" => submitted = <<>>
    /\ fpc = "returned" => decoded = nframes
    /\ Len(subtitles) = Len(Recognised)
    /\ \A i \in DOMAIN subtitles :
          /\ subtitles[i].text = Recognised[i].text
          /\ subtitles[i].time = <<Recognised[i].count, fps>>

\* the extraction returned with a recognised frame before and after a failed one
C11_Witness ==
    /\ fpc = "returned"
    /\ Len(subtitles) >= 2
    /\ \E i, j, k \in DOMAIN submitted :
          /\ i < j /\ j < k
          /\ submitted[i].ok /\ submitted[i].text # <<>>
          /\ ~submitted[j].ok
          /\ submitted[k].ok /\ submitted[k].text # <<>>

\* round(num / den) as Python rounds: to the nearest integer, halves to even
RoundHalfEven(num, den) ==
    LET q == num \div den
        r == num % den
    IN  IF 2 * r < den THEN q
        ELSE IF 2 * r > den THEN q + 1
        ELSE IF q % 2 = 0 THEN q ELSE q + 1

\* C17: once computed, the sampling interval in frames is
\* round(fps * interval_seconds) and it is at least 1.
C17_IntervalRoundedMin1 ==
    fpc \in {"loop", "returned", "raised"} =>
        /\ interval = RoundHalfEven(fps * interval_seconds, 10)
        /\ interval >= 1

\* C18: every frame submitted to recognition is a decoded frame whose index
\* is a multiple of the sampling interval, and it is stamped with its own
\* index (timestamp = frame_index / fps); when the extraction returns, every
\* such frame has been submitted.
C18_SampledFrames ==
    /\ \A i \in DOMAIN submitted :
          /\ submitted[i].index % interval = 0
          /\ submitted[i].count = submitted[i].index
    /\ fpc = "returned" /\ interval # 0 =>
          {submitted[i].index : i \in DOMAIN submitted}
             = {n \in 0 .. (nframes - 1) : n % interval = 0}

\* C19: with a source that cannot be opened or that yields no frame,
\* extract_subtitles does not return a stream.
C19_DecodeErrorOnNoFrames ==
    (~opened \/ nframes = 0) => fpc # "returned"

-----------------------------------------------------------------------------
(* Properties of the entry points' results, checked under SpecPipe *)

\* C12: when the audio branch of process_smart_subtitle fails (the audio
\* extraction raises, or the transcription fails), the invocation returns
\* what the merge of the video entries with no audio entry is formatted as.
C12_AudioFailureDegrades ==
    ppc["smart"] = "returned" /\ transcript.kind \in {"raised", "error"} =>
        result["smart"] = FormatResult(Merge(extracted["smart"], <<>>).final)

\* C13: an invocation without a video file only ever returns the "no file"
\* message: it never enters the try block, where the temporary files are
\* made and extract_subtitles (the caller of the recognizer and of its rate
\* limiter) is called; no temporary file of it appears, nothing is
\* extracted for it, and the rate limiter and the recognizer stay untouched.
C13_NoFileMessage ==
    [][\A q \in Invs :
          ~video_file[q] =>
              /\ ppc'[q] \in {"start", "returned"}
              /\ ppc'[q] = "returned" => result'[q] = [kind |-> "no_file"]
              /\ Leftover(q)' = {}
              /\ extracted'[q] = <<>>
              /\ ppc'[q] # ppc[q] => UNCHANGED <<rateVars, retryVars, files>>]_vars

\* an invocation without a file has returned while the other one, with a
\* file, holds a temporary file
C13_Witness ==
    \E q \in Invs :
        /\ ~video_file[q]
        /\ ppc[q] = "returned"
        /\ result[q] = [kind |-> "no_file"]
        /\ files # {}

\* the try block of process_smart_subtitle ran to its return statement
SmartCompleted == transcript.kind \in {"segments", "error"} /\ ~MergeRaises(ParsedAudio)

\* C14: process_smart_subtitle, called with a file, returns the "no usable
\* content" message exactly when it completed without error and the merge
\* is empty; when it completed and the merge is not empty it returns the
\* formatted lines of the merge.
C14_NoContentIffEmptyMerge ==
    ppc["smart"] = "returned" /\ video_file["smart"] =>
        /\ result["smart"].kind = "no_content" <=>
              SmartCompleted /\ Merge(extracted["smart"], ParsedAudio).final = <<>>
        /\ SmartCompleted /\ Merge(extracted["smart"], ParsedAudio).final # <<>> =>
              /\ result["smart"].kind = "subs"
              /\ result["smart"].text = Render(Merge(extracted["smart"], ParsedAudio).final)

\* "no usable content" is returned although the transcription gave a text
C14_Witness ==
    /\ ppc["smart"] = "returned"
    /\ result["smart"].kind = "no_content"
    /\ transcript.kind = "segments"
    /\ transcript.text # NoSpeechText

\* C15: the text of a successful run of process_smart_subtitle has one line
\* per merged entry, the line of the entry, and nothing else.
C15_OneLinePerEntry ==
    ppc["smart"] = "returned" /\ result["smart"].kind = "subs" =>
        /\ Len(SplitLines(result["smart"].text)) = Len(result["smart"].subs)
        /\ \A i \in DOMAIN result["smart"].subs :
              SplitLines(result["smart"].text)[i] = FormatEntry(result["smart"].subs[i])

-----------------------------------------------------------------------------
(* Properties of the text functions, checked under SpecText *)

\* C16: the text filter is idempotent: filtering what the filter returned
\* gives the same text again.
C16_FilterIdempotent == tpc = "filtered" => twice = once

\* a line of the form "[Ns] text": an opening bracket, a number of seconds
\* (whitespace around it allowed), "s]", then the text
WellFormed(line) ==
    /\ line # <<>> /\ line[1] = "["
    /\ HasIndex(line, <<"s", "]">>)
    /\ Strip(TimeStr(line)) # <<>>
    /\ \A i \in DOMAIN Strip(TimeStr(line)) : Strip(TimeStr(line))[i] \in Digits

RECURSIVE WellFormedEntries(_)
\* the entries of the well-formed lines, in order
WellFormedEntries(lines) ==
    IF lines = <<>> THEN <<>>
    ELSE (IF WellFormed(lines[1])
          THEN << [time |-> Decimal(Strip(TimeStr(lines[1]))) * TicksPerSec,
                   text |-> Strip(SubSeq(lines[1], Index(lines[1], <<"]">>) + 1,
                                         Len(lines[1])))] >>
          ELSE <<>>) \o WellFormedEntries(Tail(lines))

\* C20: a line of the audio text that is not of the form "[Ns] text" adds
\* no entry and does not make the run fail, and the well-formed lines give
\* their entries, in order.
C20_MalformedLineSkipped ==
    tpc = "parsed" =>
        /\ parse_result # "raised"
        /\ audio_subtitles = WellFormedEntries(SplitLines(audio_content))

-----------------------------------------------------------------------------
(* More properties of merge_subtitles, checked under SpecMerge *)

\* C22: every text of the output has at least 2 characters and neither
\* leading nor trailing whitespace.
C22_CleanOutput ==
    MergeDone =>
        \A i \in DOMAIN final_subs :
            /\ Len(final_subs[i].text) >= MinTextLen
            /\ Strip(final_subs[i].text) = final_subs[i].text

\* an input text that is too short once cleaned is dropped, another is kept
C22_Witness ==
    /\ MergeDone
    /\ final_subs # <<>>
    /\ \E i \in DOMAIN video_subs :
          /\ CleanText(video_subs[i].text) # <<>>
          /\ Len(CleanText(video_subs[i].text)) < MinTextLen
          /\ matches[i].emitted
          /\ matches[i].text = video_subs[i].text

\* the integer seconds consumed before video entry i is handled
UsedBefore(i) == {matches[k].atime : k \in {n \in 1 .. (i - 1) : matches[n].hit}}

\* the audio entries video entry i may match: integer second within 2 of
\* its own and not yet consumed
Candidates(i) ==
    {j \in DOMAIN audio_subs :
        /\ Abs(IntSec(audio_subs[j].time) - IntSec(video_subs[i].time)) <= WindowSec
        /\ IntSec(audio_subs[j].time) \notin UsedBefore(i)}

Score(i, j) == similar(video_subs[i].text, audio_subs[j].text)

\* C23: the match of a video entry is a candidate whose score no candidate
\* beats, and it exists exactly when some candidate's score exceeds 0.3.
C23_BestCandidateChosen ==
    MergeDone =>
        \A i \in DOMAIN video_subs :
            /\ matches[i].hit <=> \E j \in Candidates(i) : FracGt(Score(i, j), MatchThreshold)
            /\ matches[i].hit =>
                  \E j \in Candidates(i) :
                      /\ IntSec(audio_subs[j].time) = matches[i].atime
                      /\ audio_subs[j].text = matches[i].atext
                      /\ FracGt(Score(i, j), MatchThreshold)
                      /\ \A k \in Candidates(i) : ~FracGt(Score(i, k), Score(i, j))

\* C24 as stated: every video entry without a match is emitted unchanged.
C24_UnmatchedAlwaysEmitted ==
    MergeDone =>
        \A i \in DOMAIN video_subs :
            ~matches[i].hit =>
                /\ matches[i].emitted
                /\ matches[i].pos \in DOMAIN merged1
                /\ merged1[matches[i].pos] = video_subs[i]

\* C24, amended: a video entry without a match is emitted unchanged unless
\* a video entry handled before it gave exactly the same text; once emitted
\* it stays in the list step 2 works on, and no audio entry that step 2
\* emits lies less than 2 seconds from it.
C24_UnmatchedEmittedUnlessSeen ==
    MergeDone =>
        \A i \in DOMAIN video_subs :
            ~matches[i].hit =>
                /\ matches[i].emitted
                      <=> (\A k \in 1 .. (i - 1) : matches[k].text # video_subs[i].text)
                /\ matches[i].emitted =>
                      /\ matches[i].pos \in DOMAIN merged1
                      /\ merged1[matches[i].pos] = video_subs[i]
                      /\ merged2[matches[i].pos] = video_subs[i]
                      /\ \A j \in DOMAIN audio_subs :
                            leftovers[j].emitted =>
                                Abs(audio_subs[j].time - video_subs[i].time) >= TwoSec

\* an unmatched video entry was emitted and keeps an unconsumed audio entry
\* with a new text, less than 2 seconds from it, out of the list
C24_Witness ==
    /\ MergeDone
    /\ \E i \in DOMAIN video_subs, j \in DOMAIN audio_subs :
          /\ ~matches[i].hit
          /\ matches[i].emitted
          /\ ~leftovers[j].emitted
          /\ IntSec(audio_subs[j].time) \notin used_audio
          /\ Abs(audio_subs[j].time - video_subs[i].time) < TwoSec
          /\ \A k \in DOMAIN merged2 : merged2[k].text # audio_subs[j].text

\* C26: no text of the output contains the watermark.
C26_NoWatermark ==
    MergeDone => \A i \in DOMAIN final_subs : ~Contains(final_subs[i].text, Watermark)

\* the audio entry whose text the dictionary holds for the second video
\* entry i matched: the last one of that integer second
MatchedAudio(i) ==
    CHOOSE j \in DOMAIN audio_subs :
        /\ IntSec(audio_subs[j].time) = matches[i].atime
        /\ \A k \in DOMAIN audio_subs :
              IntSec(audio_subs[k].time) = matches[i].atime => k <= j

\* C27 as stated: a video entry and the audio entry it is merged with are
\* at most 2 seconds apart.
C27_MatchWithin2s ==
    MergeDone =>
        \A i \in DOMAIN video_subs :
            matches[i].hit =>
                Abs(video_subs[i].time - audio_subs[MatchedAudio(i)].time) <= TwoSec

\* C27, amended: the integer seconds of a video entry and of the audio
\* entry it is merged with differ by at most 2, so the two timestamps are
\* less than 3 seconds apart.
C27_MatchWithin2IntSeconds ==
    MergeDone =>
        \A i \in DOMAIN video_subs :
            matches[i].hit =>
                /\ matches[i].atime \in used_audio
                /\ Abs(IntSec(video_subs[i].time) - matches[i].atime) <= WindowSec
                /\ Abs(video_subs[i].time - audio_subs[MatchedAudio(i)].time)
                      < (WindowSec + 1) * TicksPerSec

\* a match of two entries more than 2 seconds apart
C27_Witness ==
    /\ MergeDone
    /\ \E i \in DOMAIN video_subs :
          /\ matches[i].hit
          /\ Abs(video_subs[i].time - audio_subs[MatchedAudio(i)].time) > TwoSec

-----------------------------------------------------------------------------
(* More properties of the text filter, checked under SpecText *)

QuoteChars == {DQuote, SQuote}

\* C21: a result of the filter that is not empty contains no ignore phrase,
\* has at most 50 characters, neither starts nor ends with a quote or with
\* whitespace, and has more than 1 character.
C21_FilterResultClean ==
    tpc = "filtered" /\ once # <<>> =>
        /\ \A phrase \in IgnorePhrases : ~Contains(once, phrase)
        /\ Len(once) <= MaxTextLen
        /\ once[1] \notin QuoteChars \cup Whitespace
        /\ once[Len(once)] \notin QuoteChars \cup Whitespace
        /\ Len(once) > 1

-----------------------------------------------------------------------------
(* More properties of the retrying recognizer, checked under SpecRetry *)

\* C25: a request is sent only by an attempt that has come back from
\* wait_if_needed, every attempt, first or retried, gets there only by a
\* return of wait_if_needed of its own, and no frame sees more than 3
\* requests.
C25_WaitBeforeEveryRequest ==
    [][/\ (trace' # trace /\ trace' # <<>>) =>
              /\ rpc["p1"] = "request"
              /\ rpc'["p1"] # "request"
              /\ Len(trace') = Len(trace) + 1
              /\ Len(trace') <= MaxAttempts
       /\ (rpc'["p1"] = "request" /\ rpc["p1"] # "request") =>
              /\ Len(returns') = Len(returns) + 1
              /\ returns'[Len(returns')].by = "p1"
              /\ Len(trace) < attempt']_vars

\* the third attempt of a frame succeeded, after three waits
C25_Witness ==
    /\ outcome.kind = "returned"
    /\ Len(trace) = MaxAttempts
    /\ Len(returns) = MaxAttempts
    /\ calls = MaxAttempts

-----------------------------------------------------------------------------
(* Termination of the frame loop, checked under SpecFramesFair *)

=============================================================================
